---------------------------- MODULE Spec2Model ----------------------------
(***************************************************************************)
(* StoryOS: the two coordinators that keep a client's live view of a game  *)
(* session consistent with the stored session document.                    *)
(*                                                                         *)
(*  - the Optimistic Write Coordinator over the session document          *)
(*    (backend, documented in the migrations notes), specification SpecWC; *)
(*  - the client Connection Agent, class GameWebSocket of                  *)
(*    frontend/src/api/client.ts, specification Spec;                      *)
(*  - the Game page around it, frontend/src/pages/Game.tsx, specification  *)
(*    SpecGame (SpecGameFair: with reconnect timers that fire), and the    *)
(*    turns a player takes on it, specification SpecTurn (SpecTurnFair);   *)
(*  - the Session Stream Hub, GameWebSocketManager and the game_websocket  *)
(*    route as the migration report gives them, specification SpecHub.     *)
(***************************************************************************)
EXTENDS Integers, Sequences, FiniteSets

\* ------------------------------------------------------------------ bounds
\* Number of concurrent applyMutation callers.
NumWriters == 4

\* Number of WebSocket objects one GameWebSocket creates.
MaxSockets == 3
\* Number of intents the caller hands to one GameWebSocket.
MaxMsgs == 3
\* Number of Game component instances created in one page lifetime.
MaxMounts == 2
\* Number of WebSocket connections the game_websocket route accepts.
MaxTransports == 3
\* Number of intents the route receives.
MaxIntents == 2
\* Number of inputs the player submits on the Game page.
MaxTurns == 2
\* Length of the text the streaming buffer of the Game page holds.
MaxBuffer == 1
\* Number of loadSession() calls in flight when visual_prompts_ready arrives.
MaxFetches == 2

\* ------------------------------------------------------- program constants
\* private maxReconnectAttempts = 5
maxReconnectAttempts == 5
\* "updates retry up to 3 times with exponential backoff"
MaxRetries == 3
\* "Version field is initialized to 1 for new documents"
InitialVersion == 1

Writers == 1..NumWriters
\* The fields of the session document the two update paths touch:
\* game_speed (PATCH /game-speed) and last_scene.
Fields == {"gameSpeed", "lastScene"}
\* What a caller asks for: nothing, a field-level patch of one field, or a
\* full-document replace.
Mutations == Fields \cup {"replace"}
NoMutation == "none"

VARIABLES
    stored,           \* the session document with its version marker
    pc,               \* each applyMutation call's position
    mutation,         \* each caller's mutation
    attempt,          \* attemptNumber of each call's Mutation Attempt
    expectedVersion,  \* the version the current attempt read
    newDoc,           \* mutationFn(document) of the current attempt
    accepted,         \* history: the accepted conditional writes, in order
    firstRead         \* history: the version each call read on its first attempt

wcVars == <<stored, pc, mutation, attempt, expectedVersion, newDoc, accepted, firstRead>>

VARIABLES
    ws,                 \* this.ws: the current WebSocket (0: null)
    readyState,         \* readyState of every WebSocket created so far
    created,            \* number of WebSocket objects created
    queue,              \* this.queue
    onMessageCallback,  \* "null" until connect() sets the callbacks
    reconnectAttempts,  \* this.reconnectAttempts
    reconnectTimeout,   \* this.reconnectTimeout: "null", an "armed" timer or a "fired" one
    armedTimers,        \* number of reconnect timers that are armed
    timerDelay,         \* delay of the armed reconnect timer, in ms (0: none)
    heartbeatInterval,  \* this.heartbeatInterval is set
    isManualDisconnect, \* this.isManualDisconnect
    enqueued,           \* number of intents the caller has handed over
    sent,               \* history: the payloads ws.send accepted, in order
    onCloseCalled,      \* history: the latest close handler ran onCloseCallback
    sendThrew           \* history: where a ws.send call threw in the agent's latest
                        \* step: "enqueue", "flushQueue", "heartbeat", or "none"

wsVars == <<ws, readyState, created, queue, onMessageCallback, reconnectAttempts,
            reconnectTimeout, armedTimers, timerDelay, heartbeatInterval,
            isManualDisconnect, enqueued, sent, onCloseCalled, sendThrew>>

VARIABLES
    requestedSessions,  \* globalThis.__storyosInitialRequests
    mounted,            \* a Game component is mounted and its effects have run
    instance,           \* the Game component instances created so far; the latest is
                        \* the one that is, or was last, mounted
    loading,            \* the loadSession() calls awaiting their response
    storedTurns,        \* number of narrative turns the stored session holds
    completed,          \* number of streaming tasks that have run to their end
    display,            \* streamingContent, isLoading, visualizationError and
                        \* isLoadingSession of the latest Game instance
    messages            \* the messages state of the latest Game instance

pageVars == <<requestedSessions, mounted, instance, loading, storedTurns, completed,
              display, messages>>

VARIABLES
    active_connections, \* GameWebSocketManager.active_connections (0: no entry)
    tpc,                \* position of each connection's game_websocket coroutine
    topen,              \* the connection is accepted and its peer has not left
    tsession,           \* session_id of each connection's path
    lastBound,          \* history: the connection last bound to each session id
    intents,            \* number of intents received
    initialTasks,       \* history: generate_initial_story_streaming tasks per session id
    lastEmit,           \* history: the latest send_chunk call and its outcome
    poppedNone          \* history: the latest pop found no entry

hubVars == <<active_connections, tpc, topen, tsession, lastBound, intents,
             initialTasks, lastEmit, poppedNone>>

\* The backend beside the client.
backendVars == <<wcVars, hubVars>>

vars == <<wcVars, wsVars, pageVars, hubVars>>

\* --------------------------------------------------------- session document
InitDoc == [f \in Fields |-> 0]
\* No document is stored under the session id yet.
NoSession == [version |-> 0, doc |-> InitDoc]
SessionExists == stored.version > 0

\* mutationFn: a field patch merges its one key into the document it read;
\* a full-document update replaces every field (all but version).
MutationFn(w, doc) ==
    IF mutation[w] = "replace"
    THEN [f \in Fields |-> w]
    ELSE [doc EXCEPT ![mutation[w]] = w]

\* A read-then-write pair in place of the conditional write: no guard.
AlwaysMatches(w) == TRUE

\* The condition of the conditional write: the stored version still equals
\* the version this attempt read.
VersionMatches(w) == stored.version = expectedVersion[w]

\* An increment that depends on what was stored, not on one.
BumpVersionTwice(v) == v + 2

\* The version an accepted write stores ($inc of version by one).
BumpVersion(v) == v + 1

\* A budget that is one attempt short.
BudgetLeftShort(w) == attempt[w] < MaxRetries - 1

\* A coordinator that never retries.
NoBudgetLeft(w) == FALSE

\* A retry loop with no bound.
AlwaysBudgetLeft(w) == TRUE

\* The retry budget is spent once attemptNumber reaches maxRetries.
BudgetLeft(w) == attempt[w] < MaxRetries

\* ====================================================== GameWebSocket
Sockets == 1..MaxSockets
CONNECTING == "CONNECTING"
OPEN == "OPEN"
CLOSING == "CLOSING"
CLOSED == "CLOSED"
\* A WebSocket that has not been constructed yet.
NOSOCKET == "NONE"

IntentTypes == {"player_input", "initial_story"}

\* new GameWebSocket(sessionId, token)
InitWS ==
    /\ ws = 0
    /\ readyState = [s \in Sockets |-> NOSOCKET]
    /\ created = 0
    /\ queue = <<>>
    /\ onMessageCallback = "null"
    /\ reconnectAttempts = 0
    /\ reconnectTimeout = "null"
    /\ armedTimers = 0
    /\ timerDelay = 0
    /\ heartbeatInterval = FALSE
    /\ isManualDisconnect = FALSE
    /\ enqueued = 0
    /\ sent = <<>>
    /\ onCloseCalled = FALSE
    /\ sendThrew = "none"

\* this.ws?.readyState
WsState == IF ws = 0 THEN NOSOCKET ELSE readyState[ws]

Min(a, b) == IF a < b THEN a ELSE b

RECURSIVE Pow2(_)
Pow2(n) == IF n = 0 THEN 1 ELSE 2 * Pow2(n - 1)

\* A back-off computed from the count after the increment.
ReconnectDelayLate(k) == Min(1000 * Pow2(k), 30000)

\* Math.min(1000 * Math.pow(2, this.reconnectAttempts - 1), 30000)
ReconnectDelay(k) == Min(1000 * Pow2(k - 1), 30000)

\* createWebSocket(): this.ws = new WebSocket(wsUrl), handlers attached.
CreateWebSocket ==
    /\ created < MaxSockets
    /\ created' = created + 1
    /\ ws' = created + 1
    /\ readyState' = [readyState EXCEPT ![created + 1] = CONNECTING]

\* A scheduleReconnect() that does not clear the pending timer.
ScheduleReconnectKeepsTimer ==
    /\ reconnectAttempts' = reconnectAttempts + 1
    /\ armedTimers' = armedTimers + 1
    /\ reconnectTimeout' = "armed"
    /\ timerDelay' = ReconnectDelay(reconnectAttempts + 1)

\* scheduleReconnect(): clear the timer this.reconnectTimeout refers to,
\* count the attempt, arm a new timer.
ScheduleReconnect ==
    /\ reconnectAttempts' = reconnectAttempts + 1
    /\ armedTimers' = (IF reconnectTimeout = "armed" THEN armedTimers - 1 ELSE armedTimers) + 1
    /\ reconnectTimeout' = "armed"
    /\ timerDelay' = ReconnectDelay(reconnectAttempts + 1)

NoSchedule == UNCHANGED <<reconnectAttempts, armedTimers, reconnectTimeout, timerDelay>>

\* A close handler that forgets the manual-disconnect flag.
CloseIgnoresManual == reconnectAttempts < maxReconnectAttempts

\* The close handler's test for reconnecting.
CloseShouldReconnect ==
    ~isManualDisconnect /\ reconnectAttempts < maxReconnectAttempts

\* An enqueue() that reconnects whatever the count of attempts.
EnqueueIgnoresBudget == ~isManualDisconnect

\* enqueue()'s test for reconnecting, on a connection that is not open and
\* not connecting.
EnqueueShouldReconnect ==
    ~isManualDisconnect /\ reconnectAttempts < maxReconnectAttempts

\* this.onCloseCallback is set: connect() stores the callbacks together, and
\* the Game page passes both onMessage and onClose.
OnCloseCallbackSet == onMessageCallback = "set"

\* connect(onMessage, onClose, onOpen)
Connect ==
    /\ onMessageCallback' = "set"
    /\ isManualDisconnect' = FALSE
    /\ onCloseCalled' = FALSE
    /\ sendThrew' = "none"
    /\ CreateWebSocket
    /\ UNCHANGED <<queue, reconnectAttempts, reconnectTimeout, armedTimers, timerDelay,
                   heartbeatInterval, enqueued, sent>>

\* The reconnect timer fires: createWebSocket(). The field keeps the handle
\* of the fired timer.
ReconnectTimerFires ==
    /\ armedTimers > 0
    /\ armedTimers' = armedTimers - 1
    /\ reconnectTimeout' =
          IF armedTimers = 1 /\ reconnectTimeout = "armed" THEN "fired" ELSE reconnectTimeout
    /\ timerDelay' = IF armedTimers = 1 THEN 0 ELSE timerDelay
    /\ sendThrew' = "none"
    /\ CreateWebSocket
    /\ UNCHANGED <<queue, onMessageCallback, reconnectAttempts, heartbeatInterval,
                   isManualDisconnect, enqueued, sent, onCloseCalled>>

\* A flush loop that does not put the payload that failed back.
RECURSIVE FlushLoopDropsFailed(_, _, _)
FlushLoopDropsFailed(q, out, succeed) ==
    IF q = <<>>
    THEN [queue |-> q, sent |-> out, threw |-> FALSE]
    ELSE IF succeed = 0
         THEN [queue |-> Tail(q), sent |-> out, threw |-> TRUE]
         ELSE FlushLoopDropsFailed(Tail(q), Append(out, Head(q)), succeed - 1)

\* The loop of flushQueue() on queue q, with out the payloads sent so far;
\* the first `succeed` sends return and the next one throws. Each turn
\* shifts the payload at the front and sends it; the payload whose send
\* throws is put back at the front and the loop ends.
RECURSIVE FlushLoop(_, _, _)
FlushLoop(q, out, succeed) ==
    IF q = <<>>
    THEN [queue |-> q, sent |-> out, threw |-> FALSE]
    ELSE IF succeed = 0
         THEN [queue |-> <<Head(q)>> \o Tail(q), sent |-> out, threw |-> TRUE]
         ELSE FlushLoop(Tail(q), Append(out, Head(q)), succeed - 1)

\* A flush that returns at once.
FlushSkipped(state) == UNCHANGED <<queue, sent>> /\ sendThrew' = "none"

\* flushQueue() on the state after the handler's earlier assignments: it
\* returns at once unless this.ws is open, and runs the loop otherwise.
FlushQueue(state) ==
    IF state # OPEN
    THEN UNCHANGED <<queue, sent>> /\ sendThrew' = "none"
    ELSE \E succeed \in 0..Len(queue) :
            LET flushed == FlushLoop(queue, sent, succeed)
            IN  /\ sent' = flushed.sent
                /\ queue' = flushed.queue
                /\ sendThrew' = IF flushed.threw THEN "flushQueue" ELSE "none"

\* An open handler that leaves the heartbeat as it is.
HeartbeatNotStarted == UNCHANGED heartbeatInterval

\* startHeartbeat(): the running interval is cleared and a new one set.
StartHeartbeat == heartbeatInterval' = TRUE

\* ws.onopen of socket s. The caller's onOpen callback, when one was given,
\* runs last, in the state the handler leaves.
OnOpen(s) ==
    /\ readyState[s] = CONNECTING
    /\ readyState' = [readyState EXCEPT ![s] = OPEN]
    /\ reconnectAttempts' = 0
    /\ StartHeartbeat
    /\ FlushQueue(IF ws = 0 THEN NOSOCKET ELSE readyState'[ws])
    /\ UNCHANGED <<ws, created, onMessageCallback, reconnectTimeout, armedTimers,
                   timerDelay, isManualDisconnect, enqueued, onCloseCalled>>

\* The closing handshake of socket s starts: readyState becomes CLOSING,
\* the close event follows later.
ClosingHandshakeStarts(s) ==
    /\ readyState[s] = OPEN
    /\ readyState' = [readyState EXCEPT ![s] = CLOSING]
    /\ sendThrew' = "none"
    /\ UNCHANGED <<ws, created, queue, onMessageCallback, reconnectAttempts,
                   reconnectTimeout, armedTimers, timerDelay, heartbeatInterval,
                   isManualDisconnect, enqueued, sent, onCloseCalled>>

\* ws.onclose of socket s: the connection failed, was lost, or its closing
\* handshake ended.
OnClose(s) ==
    /\ readyState[s] \in {CONNECTING, OPEN, CLOSING}
    /\ readyState' = [readyState EXCEPT ![s] = CLOSED]
    /\ heartbeatInterval' = FALSE
    /\ sendThrew' = "none"
    /\ IF CloseShouldReconnect
       THEN ScheduleReconnect /\ onCloseCalled' = FALSE
       ELSE NoSchedule /\ onCloseCalled' = OnCloseCallbackSet
    /\ UNCHANGED <<ws, created, queue, onMessageCallback, isManualDisconnect, enqueued, sent>>

\* ws.send is reached only with this.ws open; it returns or throws.
SendOutcomes == IF WsState = OPEN THEN BOOLEAN ELSE {TRUE}

\* The heartbeat interval ticks: a ping is sent when this.ws is open; a
\* throwing send is caught and logged.
HeartbeatTick ==
    /\ heartbeatInterval
    /\ \E sendOk \in SendOutcomes : sendThrew' = IF sendOk THEN "none" ELSE "heartbeat"
    /\ UNCHANGED <<ws, readyState, created, queue, onMessageCallback, reconnectAttempts,
                   reconnectTimeout, armedTimers, timerDelay, heartbeatInterval,
                   isManualDisconnect, enqueued, sent, onCloseCalled>>

\* A disconnect() that leaves the queue as it is.
DisconnectKeepsQueue ==
    /\ isManualDisconnect' = TRUE
    /\ heartbeatInterval' = FALSE
    /\ armedTimers' = IF reconnectTimeout = "armed" THEN armedTimers - 1 ELSE armedTimers
    /\ reconnectTimeout' = "null"
    /\ timerDelay' = 0
    /\ readyState' = IF ws # 0 /\ readyState[ws] \in {CONNECTING, OPEN}
                     THEN [readyState EXCEPT ![ws] = CLOSING]
                     ELSE readyState
    /\ ws' = 0
    /\ sendThrew' = "none"
    /\ UNCHANGED <<created, queue, onMessageCallback, reconnectAttempts, enqueued, sent,
                   onCloseCalled>>

\* disconnect()
Disconnect ==
    /\ isManualDisconnect' = TRUE
    /\ heartbeatInterval' = FALSE
    /\ armedTimers' = IF reconnectTimeout = "armed" THEN armedTimers - 1 ELSE armedTimers
    /\ reconnectTimeout' = "null"
    /\ timerDelay' = 0
    /\ readyState' = IF ws # 0 /\ readyState[ws] \in {CONNECTING, OPEN}
                     THEN [readyState EXCEPT ![ws] = CLOSING]
                     ELSE readyState
    /\ ws' = 0
    /\ queue' = <<>>
    /\ sendThrew' = "none"
    /\ UNCHANGED <<created, onMessageCallback, reconnectAttempts, enqueued, sent,
                   onCloseCalled>>

\* enqueue(payload); sendOk: ws.send does not throw.
Enqueue(payload, sendOk) ==
    /\ sendThrew' = IF sendOk THEN "none" ELSE "enqueue"
    /\ IF WsState = OPEN
       THEN /\ IF sendOk
               THEN sent' = Append(sent, payload) /\ queue' = queue
               ELSE queue' = Append(queue, payload) /\ sent' = sent
            /\ NoSchedule
       ELSE IF WsState = CONNECTING
       THEN /\ queue' = Append(queue, payload)
            /\ sent' = sent
            /\ NoSchedule
       ELSE /\ queue' = Append(queue, payload)
            /\ sent' = sent
            /\ IF EnqueueShouldReconnect THEN ScheduleReconnect ELSE NoSchedule
    /\ UNCHANGED <<ws, readyState, created, onMessageCallback, heartbeatInterval,
                   isManualDisconnect, onCloseCalled>>

\* The caller's next intent, of the given type.
NextPayload(type) == [id |-> enqueued + 1, type |-> type]

\* sendPlayerInput(content)
SendPlayerInput ==
    /\ enqueued < MaxMsgs
    /\ enqueued' = enqueued + 1
    /\ \E sendOk \in SendOutcomes : Enqueue(NextPayload("player_input"), sendOk)

\* requestInitialStory()
RequestInitialStory ==
    /\ enqueued < MaxMsgs
    /\ enqueued' = enqueued + 1
    /\ \E sendOk \in SendOutcomes : Enqueue(NextPayload("initial_story"), sendOk)

\* ====================================================== Game page
\* The session id of the route /game/:sessionId.
SessionId == "session"
Instances == 1..MaxMounts

\* The payloads of type initial_story in a sequence of payloads.
InitialStories(payloads) ==
    {i \in DOMAIN payloads : payloads[i].type = "initial_story"}

\* A page that asks for the initial story on every empty fetch.
NeverRequested == FALSE

\* requestedSessionsRef.current.has(sessionId)
AlreadyRequested == SessionId \in requestedSessions

\* requestedSessionsRef.current.add(sessionId)
MarkRequested == requestedSessions' = requestedSessions \cup {SessionId}

\* wsRef.current of instance i: set by the WebSocket effect of the mounted
\* instance, null after its cleanup.
WsRefSet(i) == mounted /\ i = instance

\* The stored session has messages: (data.messages ?? []).length is not 0
\* for a fetch that reads it now.
hasMessages == storedTurns > 0

\* useState('') / useState(false) / useState(null) / useState(true) of a
\* new Game instance.
InitialDisplay ==
    [streamingContent |-> "", isLoading |-> FALSE, visualizationError |-> "null",
     isLoadingSession |-> TRUE]

\* useState<Message[]>([]) of a new Game instance: the displayed list is
\* the first `snapshot` turns of the stored session as the latest fetch
\* returned them, followed by the messages appended locally since.
NoMessages == [snapshot |-> 0, local |-> <<>>]

\* The message handlePlayerInput appends; id is the number of the intent
\* that carries the input.
PlayerMessage(id) == [sender |-> "player", content |-> "input", id |-> id]

\* The message the story_complete handler appends.
StoryOSMessage(content) == [sender |-> "StoryOS", content |-> content, id |-> 0]

\* The contents of the story_chunk messages the server sends.
ChunkContents == {"a", "b"}

\* The number of times React runs a state updater function: once, or
\* twice under StrictMode in a development build.
UpdaterRuns == {1, 2}

\* The page is open on the session, nothing fetched yet: one Game instance
\* around the GameWebSocket.
InitPage ==
    /\ requestedSessions = {}
    /\ mounted = TRUE
    /\ instance = 1
    /\ loading = {}
    /\ storedTurns = 0
    /\ completed = 0
    /\ display = InitialDisplay
    /\ messages = NoMessages

\* The page lifetime starts with no Game component; the session is new or
\* already has messages.
InitUnmounted ==
    /\ requestedSessions = {}
    /\ mounted = FALSE
    /\ instance = 0
    /\ loading = {}
    /\ storedTurns \in {0, 1}
    /\ completed = 0
    /\ display = InitialDisplay
    /\ messages = NoMessages

\* loadSession() of instance i is called: gameAPI.getSession is awaited.
\* The response carries the stored session as it is at some moment from
\* now on; `at` is the number of intents handed over so far.
LoadSession(i) ==
    loading' = loading \cup {[inst |-> i, from |-> storedTurns', at |-> enqueued]}

\* loadSession() got an empty message list for a session not requested
\* yet, with wsRef.current set: the session is marked and
\* requestInitialStory() called.
LoadSessionRequestsStory ==
    /\ ~AlreadyRequested
    /\ MarkRequested
    /\ display' = [display EXCEPT !.visualizationError = "null", !.isLoading = TRUE,
                                  !.isLoadingSession = FALSE]
    /\ RequestInitialStory
    /\ UNCHANGED <<mounted, instance, loading, storedTurns, completed, messages>>

\* A Game component mounts (a new instance, or the effects of the latest
\* instance run again): the load-session effect calls loadSession() and the
\* WebSocket effect, finding wsRef.current null, creates a GameWebSocket
\* and connects it.
MountGame(fresh) ==
    /\ ~mounted
    /\ IF fresh THEN instance < MaxMounts ELSE instance > 0
    /\ mounted' = TRUE
    /\ instance' = IF fresh THEN instance + 1 ELSE instance
    /\ UNCHANGED <<enqueued, sent, requestedSessions, storedTurns, completed>>
    /\ LoadSession(instance')
    /\ display' = IF fresh THEN InitialDisplay ELSE display
    /\ messages' = IF fresh THEN NoMessages ELSE messages
    /\ ws' = 1
    /\ readyState' = [s \in Sockets |-> IF s = 1 THEN CONNECTING ELSE NOSOCKET]
    /\ created' = 1
    /\ queue' = <<>>
    /\ onMessageCallback' = "set"
    /\ reconnectAttempts' = 0
    /\ reconnectTimeout' = "null"
    /\ armedTimers' = 0
    /\ timerDelay' = 0
    /\ heartbeatInterval' = FALSE
    /\ isManualDisconnect' = FALSE
    /\ onCloseCalled' = FALSE
    /\ sendThrew' = "none"

\* The Game component unmounts: the WebSocket effect's cleanup calls
\* ws.disconnect() and sets wsRef.current to null.
UnmountGame ==
    /\ mounted
    /\ mounted' = FALSE
    /\ Disconnect
    /\ UNCHANGED <<requestedSessions, instance, loading, storedTurns, completed,
                   display, messages>>

\* The list after the updater of the story_complete handler has run
\* `runs` times: every run calls setMessages, which appends the message.
AppendedRuns(list, message, runs) ==
    IF runs = 1 THEN Append(list, message) ELSE Append(Append(list, message), message)

\* case 'story_chunk': the content is appended to the streaming buffer.
HandleStoryChunk(content) ==
    /\ Len(display.streamingContent) < MaxBuffer
    /\ display' = [display EXCEPT !.streamingContent = @ \o content]
    /\ UNCHANGED <<loading, messages>>

\* case 'story_complete': the updater of setStreamingContent appends the
\* streamed text to the messages, if there is any, and empties the buffer;
\* the loading flag is cleared and loadSession() called.
HandleStoryComplete(runs) ==
    /\ messages' =
          IF display.streamingContent # ""
          THEN [messages EXCEPT
                   !.local = AppendedRuns(@, StoryOSMessage(display.streamingContent), runs)]
          ELSE messages
    /\ display' = [display EXCEPT !.streamingContent = "", !.isLoading = FALSE]
    /\ LoadSession(instance)

\* case 'visual_prompts_ready': loadSession() is called.
HandleVisualPromptsReady ==
    /\ LoadSession(instance)
    /\ UNCHANGED <<display, messages>>

\* story_complete or visual_prompts_ready arrives: loadSession() again;
\* story_complete also moves the streamed text to the messages and clears
\* the loading flag.
ReloadSession ==
    /\ mounted
    /\ WsState = OPEN
    /\ hasMessages
    /\ \A f \in loading : f.inst # instance
    /\ UNCHANGED <<requestedSessions, mounted, instance, storedTurns, completed>>
    /\ UNCHANGED wsVars
    /\ \E complete \in BOOLEAN :
          IF complete
          THEN \E runs \in UpdaterRuns : HandleStoryComplete(runs)
          ELSE HandleVisualPromptsReady

\* story_chunk arrives: the text is appended to the streaming buffer.
StoryChunk ==
    /\ mounted
    /\ WsState = OPEN
    /\ InitialStories(sent) # {}
    /\ \E content \in ChunkContents : HandleStoryChunk(content)
    /\ UNCHANGED <<requestedSessions, mounted, instance, storedTurns, completed>>
    /\ UNCHANGED wsVars

\* An error handler that gives the connection up.
ErrorDisconnects == Disconnect

\* What the handling of an error message does to the GameWebSocket: the
\* onmessage handler parses the payload and calls the callback, which calls
\* no method of the agent.
ErrorLeavesAgent == UNCHANGED wsVars

\* An error message arrives: onmessage hands it to handleWebsocketMessage.
ErrorMessage ==
    /\ mounted
    /\ WsState = OPEN
    /\ onMessageCallback = "set"
    /\ display' = [display EXCEPT !.streamingContent = "", !.isLoading = FALSE,
                                  !.visualizationError = "message"]
    /\ ErrorLeavesAgent
    /\ UNCHANGED <<requestedSessions, mounted, instance, loading, storedTurns,
                   completed, messages>>

\* A transport of the page's GameWebSocket closes; the onClose callback the
\* page passed to connect() clears the loading flag.
TransportCloses(s) ==
    /\ OnClose(s)
    /\ display' = IF onCloseCalled' THEN [display EXCEPT !.isLoading = FALSE] ELSE display
    /\ UNCHANGED <<requestedSessions, mounted, instance, loading, storedTurns,
                   completed, messages>>

\* The response of gameAPI.getSession arrives in the loadSession() call f:
\* it carries the session as the server read it at some moment since the
\* call, and replaces the displayed list of the instance that called.
LoadSessionResponse(f) ==
    /\ f \in loading
    /\ loading' = loading \ {f}
    /\ \E snapshot \in f.from..storedTurns :
          /\ messages' = IF f.inst = instance
                         THEN [snapshot |-> snapshot, local |-> <<>>]
                         ELSE messages
          /\ IF snapshot = 0 /\ ~AlreadyRequested
             THEN /\ MarkRequested
                  /\ display' = IF f.inst = instance
                                THEN [display EXCEPT !.visualizationError = "null",
                                                     !.isLoading = TRUE,
                                                     !.isLoadingSession = FALSE]
                                ELSE display
                  /\ IF WsRefSet(f.inst) THEN RequestInitialStory ELSE UNCHANGED wsVars
             ELSE /\ display' = IF f.inst = instance
                                THEN [display EXCEPT !.visualizationError = "null",
                                                     !.isLoadingSession = FALSE]
                                ELSE display
                  /\ UNCHANGED <<requestedSessions, wsVars>>
    /\ UNCHANGED <<mounted, instance, storedTurns, completed>>

\* The narrative engine has processed an initial_story intent it received:
\* the session has its first message.
StoryGenerated ==
    /\ InitialStories(sent) # {}
    /\ ~hasMessages
    /\ storedTurns' = 1
    /\ completed' = completed + 1
    /\ UNCHANGED <<requestedSessions, mounted, instance, loading, display, messages>>
    /\ UNCHANGED wsVars

\* A PlayerInput that is never disabled.
InputAlwaysEnabled == TRUE

\* PlayerInput is rendered with disabled={isLoading}: its textarea and its
\* Send button are disabled, so neither handleKeyDown nor handleSubmit runs.
InputEnabled == ~display.isLoading

\* handlePlayerInput(content): the player's message is appended to the
\* displayed list, the loading flag set, the streaming buffer emptied and
\* the input handed to the GameWebSocket.
HandlePlayerInput ==
    /\ mounted
    /\ enqueued < MaxTurns
    /\ ~display.isLoadingSession
    /\ InputEnabled
    /\ messages' = [messages EXCEPT !.local = Append(@, PlayerMessage(enqueued + 1))]
    /\ display' = [display EXCEPT !.isLoading = TRUE, !.streamingContent = ""]
    /\ SendPlayerInput
    /\ UNCHANGED <<requestedSessions, mounted, instance, loading, storedTurns, completed>>

\* ------------------------------------------- the streaming tasks of a session
\* The intents in a sequence of payloads for which the route starts a
\* streaming task.
Intents(payloads) ==
    {i \in DOMAIN payloads : payloads[i].type \in {"player_input", "initial_story"}}

\* The streaming tasks that have not sent their story_complete yet.
Streaming == Cardinality(Intents(sent)) - completed

\* send_chunk finds the page's transport: the message reaches onmessage of
\* the current WebSocket and the page's handler.
Delivered == mounted /\ WsState = OPEN /\ onMessageCallback = "set"

\* process_player_input_streaming sends a story_chunk: send_chunk passes
\* it to the session's connection, or drops it when there is none.
SendStoryChunk ==
    /\ Streaming > 0
    /\ IF Delivered
       THEN \E content \in ChunkContents : HandleStoryChunk(content)
       ELSE UNCHANGED <<display, loading, messages>>
    /\ UNCHANGED <<requestedSessions, mounted, instance, storedTurns, completed>>
    /\ UNCHANGED wsVars

\* process_player_input_streaming has produced the whole turn, which is
\* stored, and sends story_complete the same way.
SendStoryComplete ==
    /\ Streaming > 0
    /\ completed' = completed + 1
    /\ storedTurns' = storedTurns + 1
    /\ IF Delivered
       THEN \E runs \in UpdaterRuns : HandleStoryComplete(runs)
       ELSE UNCHANGED <<display, loading, messages>>
    /\ UNCHANGED <<requestedSessions, mounted, instance>>
    /\ UNCHANGED wsVars

\* The server sends visual_prompts_ready to the page.
VisualPromptsReady ==
    /\ Delivered
    /\ Cardinality(loading) < MaxFetches
    /\ UNCHANGED <<requestedSessions, mounted, instance, storedTurns, completed>>
    /\ UNCHANGED wsVars
    /\ HandleVisualPromptsReady


\* ====================================================== Session Stream Hub
Transports == 1..MaxTransports
HubSessions == {"a", "b"}
NoSessionId == "none"

\* manager = GameWebSocketManager(); nothing has connected.
InitManager ==
    /\ active_connections = [sid \in HubSessions |-> 0]
    /\ tpc = [t \in Transports |-> "idle"]
    /\ topen = [t \in Transports |-> FALSE]
    /\ tsession = [t \in Transports |-> NoSessionId]
    /\ lastBound = [sid \in HubSessions |-> 0]
    /\ intents = 0
    /\ initialTasks = [sid \in HubSessions |-> 0]
    /\ lastEmit = [sid |-> NoSessionId, outcome |-> "none"]
    /\ poppedNone = FALSE

\* A pop that empties the dictionary.
PopAll(conns, sid) == [x \in HubSessions |-> 0]

\* active_connections.pop(session_id, None)
Pop(conns, sid) == [conns EXCEPT ![sid] = 0]

\* game_websocket(websocket, session_id) starts and connect() awaits
\* websocket.accept(). Connections are numbered in the order they arrive,
\* and so are the session ids: "a" is the id of the first connection.
ManagerConnectAccept(t, sid) ==
    /\ tpc[t] = "idle"
    /\ \A u \in Transports : u < t => tpc[u] # "idle"
    /\ sid = "b" => \E u \in Transports : tsession[u] = "a"
    /\ tpc' = [tpc EXCEPT ![t] = "accepted"]
    /\ topen' = [topen EXCEPT ![t] = TRUE]
    /\ tsession' = [tsession EXCEPT ![t] = sid]
    /\ UNCHANGED <<active_connections, lastBound, intents, initialTasks, lastEmit,
                   poppedNone>>

\* connect() resumes: self.active_connections[session_id] = websocket; the
\* route enters its receive loop.
ManagerConnectBind(t) ==
    /\ tpc[t] = "accepted"
    /\ active_connections' = [active_connections EXCEPT ![tsession[t]] = t]
    /\ lastBound' = [lastBound EXCEPT ![tsession[t]] = t]
    /\ tpc' = [tpc EXCEPT ![t] = "receiving"]
    /\ UNCHANGED <<topen, tsession, intents, initialTasks, lastEmit, poppedNone>>

\* The peer of connection t closes it, or the network drops it.
PeerDisconnects(t) ==
    /\ topen[t]
    /\ topen' = [topen EXCEPT ![t] = FALSE]
    /\ UNCHANGED <<active_connections, tpc, tsession, lastBound, intents, initialTasks,
                   lastEmit, poppedNone>>

\* websocket.receive_text() returns an intent: a task is created for it.
ReceiveIntent(t, type) ==
    /\ tpc[t] = "receiving"
    /\ topen[t]
    /\ intents < MaxIntents
    /\ intents' = intents + 1
    /\ initialTasks' =
          IF type = "initial_story"
          THEN [initialTasks EXCEPT ![tsession[t]] = @ + 1]
          ELSE initialTasks
    /\ UNCHANGED <<active_connections, tpc, topen, tsession, lastBound, lastEmit,
                   poppedNone>>

\* websocket.receive_text() raises WebSocketDisconnect: the route calls
\* manager.disconnect(session_id) and ends.
ManagerDisconnect(t) ==
    /\ tpc[t] = "receiving"
    /\ ~topen[t]
    /\ active_connections' = Pop(active_connections, tsession[t])
    /\ poppedNone' = (active_connections[tsession[t]] = 0)
    /\ tpc' = [tpc EXCEPT ![t] = "done"]
    /\ UNCHANGED <<topen, tsession, lastBound, intents, initialTasks, lastEmit>>

\* send_chunk(session_id, chunk): send_text on the connection of the
\* entry, if there is one; send_text raises on a connection that is gone.
SendChunk(sid) ==
    /\ lastEmit' =
          [sid |-> sid,
           outcome |-> IF active_connections[sid] = 0 THEN "dropped"
                       ELSE IF topen[active_connections[sid]] THEN "sent"
                       ELSE "raised"]
    /\ UNCHANGED <<active_connections, tpc, topen, tsession, lastBound, intents,
                   initialTasks, poppedNone>>

\* ------------------------------------------------------------------ actions
\* The external collaborator creates the session, with version = 1.
CreateSession ==
    /\ ~SessionExists
    /\ stored' = [version |-> InitialVersion, doc |-> InitDoc]
    /\ UNCHANGED <<pc, mutation, attempt, expectedVersion, newDoc, accepted, firstRead>>

\* One attempt's read of the current (version, document) pair, and the new
\* document computed from it. Callers with the same mutation are
\* interchangeable: they are numbered in the order of their first reads.
ReadVersion(w) ==
    /\ pc[w] = "read"
    /\ SessionExists
    /\ attempt[w] = 0 =>
          \A u \in Writers : (u < w /\ mutation[u] = mutation[w]) => attempt[u] > 0
    /\ attempt' = [attempt EXCEPT ![w] = @ + 1]
    /\ expectedVersion' = [expectedVersion EXCEPT ![w] = stored.version]
    /\ newDoc' = [newDoc EXCEPT ![w] = MutationFn(w, stored.doc)]
    /\ firstRead' = [firstRead EXCEPT ![w] = IF attempt[w] = 0 THEN stored.version ELSE @]
    /\ pc' = [pc EXCEPT ![w] = "write"]
    /\ UNCHANGED <<stored, mutation, accepted>>

\* The conditional write succeeds: one atomic step at the storage layer.
WriteAccepted(w) ==
    /\ pc[w] = "write"
    /\ VersionMatches(w)
    /\ stored' = [version |-> BumpVersion(stored.version), doc |-> newDoc[w]]
    /\ accepted' = Append(accepted, [writer |-> w, expected |-> expectedVersion[w]])
    /\ pc' = [pc EXCEPT ![w] = "success"]
    \* the Mutation Attempt is destroyed after success
    /\ expectedVersion' = [expectedVersion EXCEPT ![w] = 0]
    /\ newDoc' = [newDoc EXCEPT ![w] = InitDoc]
    /\ UNCHANGED <<mutation, attempt, firstRead>>

\* A coordinator that, out of budget, writes its document anyway.
WriteConflictOverwrites(w) ==
    /\ pc[w] = "write"
    /\ ~VersionMatches(w)
    /\ pc' = [pc EXCEPT ![w] = IF BudgetLeft(w) THEN "read" ELSE "ConflictExhausted"]
    /\ stored' = IF BudgetLeft(w) THEN stored ELSE [stored EXCEPT !.doc = newDoc[w]]
    /\ expectedVersion' = [expectedVersion EXCEPT ![w] = 0]
    /\ newDoc' = [newDoc EXCEPT ![w] = InitDoc]
    /\ UNCHANGED <<mutation, attempt, accepted, firstRead>>

\* The conditional write reports a conflict: another writer won the race.
\* With budget left the call backs off and re-reads; otherwise it surfaces
\* ConflictExhausted.
WriteConflict(w) ==
    /\ pc[w] = "write"
    /\ ~VersionMatches(w)
    /\ pc' = [pc EXCEPT ![w] = IF BudgetLeft(w) THEN "read" ELSE "ConflictExhausted"]
    /\ expectedVersion' = [expectedVersion EXCEPT ![w] = 0]
    /\ newDoc' = [newDoc EXCEPT ![w] = InitDoc]
    /\ UNCHANGED <<stored, mutation, attempt, accepted, firstRead>>

\* --------------------------------------------------------- specification
\* The callers are interchangeable (a caller's number only labels the value
\* it writes), so they are numbered in the order of their mutations' kinds.
Rank(m) ==
    CASE m = "gameSpeed" -> 1
      [] m = "lastScene" -> 2
      [] m = "replace" -> 3
      [] OTHER -> 4

\* N callers start their applyMutation calls together, each with its own
\* mutation; a writer with no mutation never calls.
InitWC ==
    /\ stored = NoSession
    /\ mutation \in [Writers -> Mutations \cup {NoMutation}]
    /\ \A w \in Writers : w + 1 \in Writers => Rank(mutation[w]) <= Rank(mutation[w + 1])
    /\ pc = [w \in Writers |-> IF mutation[w] = NoMutation THEN "idle" ELSE "read"]
    /\ attempt = [w \in Writers |-> 0]
    /\ expectedVersion = [w \in Writers |-> 0]
    /\ newDoc = [w \in Writers |-> InitDoc]
    /\ accepted = <<>>
    /\ firstRead = [w \in Writers |-> 0]

NextWC ==
    \/ CreateSession /\ UNCHANGED <<wsVars, pageVars, hubVars>>
    \/ \E w \in Writers : ReadVersion(w) /\ UNCHANGED <<wsVars, pageVars, hubVars>>
    \/ \E w \in Writers : WriteAccepted(w) /\ UNCHANGED <<wsVars, pageVars, hubVars>>
    \/ \E w \in Writers : WriteConflict(w) /\ UNCHANGED <<wsVars, pageVars, hubVars>>

\* The calls of the coordinator, beside a GameWebSocket that is left alone.
InitCoordinator == InitWC /\ InitWS /\ InitPage /\ InitManager

SpecWC == InitCoordinator /\ [][NextWC]_vars

\* Request handlers and the store run to completion: a step that stays
\* possible is eventually taken.
SpecWCFair == SpecWC /\ WF_vars(NextWC)

\* One GameWebSocket, its caller and its transports; no coordinator call runs.
\* The caller uses the methods in any order; the initial story is asked for
\* as the Game page asks for it.
Init ==
    /\ InitWS
    /\ InitWC
    /\ mutation = [w \in Writers |-> NoMutation]
    /\ InitPage
    /\ InitManager

Next ==
    \/ Connect /\ UNCHANGED <<backendVars, pageVars>>
    \/ Disconnect /\ UNCHANGED <<backendVars, pageVars>>
    \/ SendPlayerInput /\ UNCHANGED <<backendVars, pageVars>>
    \/ LoadSessionRequestsStory /\ UNCHANGED backendVars
    \/ ReconnectTimerFires /\ UNCHANGED <<backendVars, pageVars>>
    \/ HeartbeatTick /\ UNCHANGED <<backendVars, pageVars>>
    \/ \E s \in Sockets : OnOpen(s) /\ UNCHANGED <<backendVars, pageVars>>
    \/ \E s \in Sockets : ClosingHandshakeStarts(s) /\ UNCHANGED <<backendVars, pageVars>>
    \/ \E s \in Sockets : OnClose(s) /\ UNCHANGED <<backendVars, pageVars>>

Spec == Init /\ [][Next]_vars

\* The Game page over one page lifetime: its instances mount and unmount,
\* each mount with a GameWebSocket of its own; the session's messages are
\* fetched and the initial story asked for.
InitGame ==
    /\ InitWS
    /\ InitWC
    /\ mutation = [w \in Writers |-> NoMutation]
    /\ InitUnmounted
    /\ InitManager

NextGame ==
    \/ \E fresh \in BOOLEAN : MountGame(fresh) /\ UNCHANGED backendVars
    \/ UnmountGame /\ UNCHANGED backendVars
    \/ ReloadSession /\ UNCHANGED backendVars
    \/ \E f \in loading : LoadSessionResponse(f) /\ UNCHANGED backendVars
    \/ StoryGenerated /\ UNCHANGED backendVars
    \/ StoryChunk /\ UNCHANGED backendVars
    \/ ErrorMessage /\ UNCHANGED backendVars
    \/ ReconnectTimerFires /\ UNCHANGED <<backendVars, pageVars>>
    \/ HeartbeatTick /\ UNCHANGED <<backendVars, pageVars>>
    \/ \E s \in Sockets : OnOpen(s) /\ UNCHANGED <<backendVars, pageVars>>
    \/ \E s \in Sockets : ClosingHandshakeStarts(s) /\ UNCHANGED <<backendVars, pageVars>>
    \/ \E s \in Sockets : TransportCloses(s) /\ UNCHANGED backendVars

SpecGame == InitGame /\ [][NextGame]_vars

\* The Game page with timers that fire: an armed reconnect timer runs its
\* callback after its delay.
SpecGameFair ==
    SpecGame /\ WF_vars(ReconnectTimerFires /\ UNCHANGED <<backendVars, pageVars>>)

\* The turns of a player on a mounted Game page: the page has called
\* loadSession() and connected its GameWebSocket; the session holds its
\* first turn. The server streams a turn for every intent it receives.
InitTurn ==
    /\ InitWC
    /\ mutation = [w \in Writers |-> NoMutation]
    /\ InitManager
    /\ ws = 1
    /\ readyState = [s \in Sockets |-> IF s = 1 THEN CONNECTING ELSE NOSOCKET]
    /\ created = 1
    /\ queue = <<>>
    /\ onMessageCallback = "set"
    /\ reconnectAttempts = 0
    /\ reconnectTimeout = "null"
    /\ armedTimers = 0
    /\ timerDelay = 0
    /\ heartbeatInterval = FALSE
    /\ isManualDisconnect = FALSE
    /\ enqueued = 0
    /\ sent = <<>>
    /\ onCloseCalled = FALSE
    /\ sendThrew = "none"
    /\ requestedSessions = {}
    /\ mounted = TRUE
    /\ instance = 1
    /\ loading = {[inst |-> 1, from |-> 1, at |-> 0]}
    /\ storedTurns = 1
    /\ completed = 0
    /\ display = InitialDisplay
    /\ messages = NoMessages

NextTurn ==
    \/ HandlePlayerInput /\ UNCHANGED backendVars
    \/ \E f \in loading : LoadSessionResponse(f) /\ UNCHANGED backendVars
    \/ SendStoryChunk /\ UNCHANGED backendVars
    \/ SendStoryComplete /\ UNCHANGED backendVars
    \/ VisualPromptsReady /\ UNCHANGED backendVars
    \/ ErrorMessage /\ UNCHANGED backendVars
    \/ ReconnectTimerFires /\ UNCHANGED <<backendVars, pageVars>>
    \/ \E s \in Sockets : OnOpen(s) /\ UNCHANGED <<backendVars, pageVars>>
    \/ \E s \in Sockets : TransportCloses(s) /\ UNCHANGED backendVars

SpecTurn == InitTurn /\ [][NextTurn]_vars

\* The turns with a server task that runs to its end, reconnect timers
\* that fire, and reconnects that succeed: the transport the agent is
\* waiting for opens unless it is closed first.
SpecTurnFair ==
    /\ SpecTurn
    /\ WF_vars(SendStoryComplete /\ UNCHANGED backendVars)
    /\ WF_vars(ReconnectTimerFires /\ UNCHANGED <<backendVars, pageVars>>)
    /\ WF_vars(OnOpen(ws) /\ UNCHANGED <<backendVars, pageVars>>)

\* The manager and the game_websocket coroutines of the connections that
\* arrive, beside a client that is left alone.
InitHub ==
    /\ InitWS
    /\ InitWC
    /\ mutation = [w \in Writers |-> NoMutation]
    /\ InitPage
    /\ InitManager

NextHub ==
    \/ \E t \in Transports, sid \in HubSessions :
          ManagerConnectAccept(t, sid) /\ UNCHANGED <<wcVars, wsVars, pageVars>>
    \/ \E t \in Transports : ManagerConnectBind(t) /\ UNCHANGED <<wcVars, wsVars, pageVars>>
    \/ \E t \in Transports : PeerDisconnects(t) /\ UNCHANGED <<wcVars, wsVars, pageVars>>
    \/ \E t \in Transports, type \in IntentTypes :
          ReceiveIntent(t, type) /\ UNCHANGED <<wcVars, wsVars, pageVars>>
    \/ \E t \in Transports : ManagerDisconnect(t) /\ UNCHANGED <<wcVars, wsVars, pageVars>>
    \/ \E sid \in HubSessions : SendChunk(sid) /\ UNCHANGED <<wcVars, wsVars, pageVars>>

SpecHub == InitHub /\ [][NextHub]_vars

\* ------------------------------------------------- coordinator: vocabulary
Active == {w \in Writers : mutation[w] # NoMutation}
Succeeded == {w \in Writers : pc[w] = "success"}
Exhausted == {w \in Writers : pc[w] = "ConflictExhausted"}
AllReturned == \A w \in Active : pc[w] \in {"success", "ConflictExhausted"}
AcceptedWriters == {accepted[i].writer : i \in DOMAIN accepted}
AcceptedAt(w) == CHOOSE i \in DOMAIN accepted : accepted[i].writer = w
\* The version w's accepted write was accepted against (0: none was).
AcceptedExpected(w) ==
    IF w \in AcceptedWriters THEN accepted[AcceptedAt(w)].expected ELSE 0

\* The accepted mutations applied to the created document in acceptance order.
RECURSIVE Replay(_, _)
Replay(doc, log) ==
    IF log = <<>> THEN doc
    ELSE Replay(MutationFn(Head(log).writer, doc), Tail(log))

\* Mutation of writer w writes field f.
Touches(w, f) == mutation[w] = "replace" \/ mutation[w] = f

\* ---------------------------------------------------------------- C1
NoVersionAcceptedTwice ==
    \A i, j \in DOMAIN accepted : i # j => accepted[i].expected # accepted[j].expected

LoserChangesNothing ==
    \A w \in Writers :
        ( /\ pc[w] = "write"
          /\ pc'[w] # "write"
          /\ \E i \in DOMAIN accepted : accepted[i].expected = expectedVersion[w] )
        => /\ stored' = stored
           /\ accepted' = accepted
           /\ pc'[w] \in {"read", "ConflictExhausted"}

\* C1: at most one conditional write is accepted against any stored version
\* value, and a writer whose attempt read a version that another write was
\* already accepted against observes a conflict and leaves the stored
\* document and version unchanged with that attempt.
C1_AtMostOneWinnerPerVersion ==
    [](NoVersionAcceptedTwice) /\ [][LoserChangesNothing]_vars

\* Two writers read the same version; one was accepted against it and the
\* other has conflicted on that attempt.
C1_Witness ==
    \E a, b \in Writers :
        /\ a # b
        /\ firstRead[a] = firstRead[b]
        /\ pc[a] = "success" /\ attempt[a] = 1
        /\ pc[b] = "read" /\ attempt[b] = 1

\* ---------------------------------------------------------------- C2
\* C2: no lost update. The stored document is the accepted mutations composed
\* in acceptance order, and an accepted field patch stays in the document
\* unless a mutation accepted after it writes the same field; so two racing
\* patches of different fields are both in the final document.
C2_NoLostUpdate ==
    SessionExists =>
        /\ stored.doc = Replay(InitDoc, accepted)
        /\ \A i \in DOMAIN accepted :
              LET a == accepted[i].writer IN
              ( /\ mutation[a] \in Fields
                /\ \A j \in DOMAIN accepted : j > i => ~Touches(accepted[j].writer, mutation[a]) )
              => stored.doc[mutation[a]] = a

\* Two patches of different fields raced from the same version and both
\* completed, the loser after a retry.
C2_Witness ==
    \E a, b \in Succeeded :
        /\ mutation[a] \in Fields /\ mutation[b] \in Fields
        /\ mutation[a] # mutation[b]
        /\ firstRead[a] = firstRead[b]
        /\ attempt[b] = 2
        /\ stored.doc[mutation[a]] = a /\ stored.doc[mutation[b]] = b

\* ---------------------------------------------------------------- C3
\* C3 as claimed: once all N calls have returned, exactly N writes were
\* accepted and the version is v + N.
C3_AllAccepted ==
    AllReturned /\ SessionExists =>
        /\ Len(accepted) = Cardinality(Active)
        /\ stored.version = InitialVersion + Cardinality(Active)

\* C3 as amended: once all N calls have returned, the version is v plus the
\* number of calls that returned success, which is the number of accepted
\* writes; every call succeeds when N <= maxRetries.
C3_VersionCountsAccepted ==
    AllReturned /\ SessionExists =>
        /\ Len(accepted) = Cardinality(Succeeded)
        /\ AcceptedWriters = Succeeded
        /\ stored.version = InitialVersion + Cardinality(Succeeded)
        /\ Cardinality(Active) <= MaxRetries => Succeeded = Active

\* Three racing calls have all returned, one of them on its last attempt.
C3_Witness ==
    /\ AllReturned
    /\ Cardinality(Active) = MaxRetries
    /\ \E w \in Succeeded : attempt[w] = MaxRetries
    /\ stored.version = InitialVersion + MaxRetries

\* ---------------------------------------------------------------- C4
VersionStep ==
    IF ~SessionExists
    THEN stored' = stored \/ stored'.version = 1
    ELSE \/ stored'.version = stored.version
         \/ /\ stored'.version = stored.version + 1
            /\ \E w \in Writers :
                  /\ pc[w] = "write" /\ pc'[w] = "success"
                  /\ stored'.version = expectedVersion[w] + 1

\* C4: the version starts at 1 at creation; every step leaves it unchanged
\* or raises it by exactly 1, on an accepted mutation, to one more than the
\* version that attempt read. It never decreases and is never reset.
C4_VersionStepsByOne == [][VersionStep]_vars

\* The version has been raised three times since creation.
C4_Witness == stored.version = InitialVersion + 3

\* ---------------------------------------------------------------- C5
\* C5: a field patch and a full-document replace that raced from the same
\* version are never both accepted against that version, and once both have
\* completed (and nothing else was written) the document holds the patch's
\* value in its field and the rewrite's value in the other fields.
C5_NeitherClobbers ==
    \A p, r \in Succeeded :
        ( /\ mutation[p] \in Fields
          /\ mutation[r] = "replace"
          /\ firstRead[p] = firstRead[r]
          /\ AcceptedWriters = {p, r} )
        => /\ accepted[1].expected # accepted[2].expected
           /\ stored.doc[mutation[p]] = p
           /\ \A f \in Fields \ {mutation[p]} : stored.doc[f] = r

\* ---------------------------------------------------------------- C6
\* C6: a call returns ConflictExhausted only after maxRetries attempts that
\* all conflicted; none of its attempts was accepted, and the stored document
\* and version are exactly what the accepted (winning) writes left.
C6_ExhaustedChangesNothing ==
    \A w \in Exhausted :
        /\ attempt[w] = MaxRetries
        /\ w \notin AcceptedWriters
        /\ stored.doc = Replay(InitDoc, accepted)
        /\ stored.version = InitialVersion + Len(accepted)
        /\ Len(accepted) >= MaxRetries

\* A caller has exhausted its budget while three others won.
C6_Witness ==
    \E w \in Exhausted : Cardinality(Succeeded) = MaxRetries /\ AllReturned

\* ---------------------------------------------------------------- C7
OneOutcome ==
    \A w \in Writers :
        /\ attempt[w] <= MaxRetries
        /\ pc[w] = "success" <=> w \in AcceptedWriters
        /\ pc[w] = "ConflictExhausted" => attempt[w] = MaxRetries

\* C7: every applyMutation call makes at most maxRetries conditional-write
\* attempts and eventually returns, with exactly one of success (its write
\* was accepted) or ConflictExhausted (none was).
C7_EveryCallReturns == [](OneOutcome) /\ <>[](AllReturned)

\* Four calls have returned, one of them exhausted.
C7_Witness ==
    /\ AllReturned
    /\ Cardinality(Active) = 4
    /\ Exhausted # {}

\* ---------------------------------------------------------------- C8
\* Writers a and b both read version v on their first attempt, both have
\* returned, and no other write was accepted against v or later.
RacedAlone(a, b) ==
    /\ a # b
    /\ mutation[a] \in Fields /\ mutation[b] \in Fields
    /\ mutation[a] # mutation[b]
    /\ firstRead[a] > 0 /\ firstRead[a] = firstRead[b]
    /\ pc[a] \in {"success", "ConflictExhausted"}
    /\ pc[b] \in {"success", "ConflictExhausted"}
    /\ \A i \in DOMAIN accepted :
          accepted[i].writer \notin {a, b} => accepted[i].expected < firstRead[a]

\* C8: two field updates of different fields submitted together against a
\* session at version v both succeed, the version ends at v+2, the document
\* holds both values, the winner needed one attempt and the loser exactly
\* one retry, accepted against version v+1.
C8_TwoPatchesOneRetry ==
    \A a, b \in Writers :
        RacedAlone(a, b)
        => /\ pc[a] = "success" /\ pc[b] = "success"
           /\ stored.version = firstRead[a] + 2
           /\ stored.doc[mutation[a]] = a /\ stored.doc[mutation[b]] = b
           /\ {AcceptedExpected(a), AcceptedExpected(b)} = {firstRead[a], firstRead[a] + 1}
           /\ \A x \in {a, b} :
                 attempt[x] = IF AcceptedExpected(x) = firstRead[a] THEN 1 ELSE 2

\* The race happened at a version above 1 and both writers have returned.
C8_Witness ==
    \E a, b \in Writers :
        /\ RacedAlone(a, b)
        /\ firstRead[a] = InitialVersion + 2
        /\ attempt[b] = 2 /\ pc[b] = "success"

\* ---------------------------------------------------------------- C9
\* C9: the payloads handed to the transport are in enqueue order without
\* duplicates: every payload sent was enqueued after all payloads sent
\* before it.
C9_SentInEnqueueOrder ==
    \A i, j \in DOMAIN sent : i < j => sent[i].id < sent[j].id

\* ---------------------------------------------------------------- C10
ManualStep ==
    isManualDisconnect /\ isManualDisconnect'
    => /\ created' = created
       /\ ws' = 0
       /\ armedTimers' = 0
       /\ reconnectTimeout' # "armed"

\* C10: from disconnect() until the next connect(), whatever the step (a
\* close event of the old transport, an open event of an older one, an
\* intent from the caller), no reconnect timer is armed and no WebSocket is
\* created, whatever budget is left.
C10_ManualDisconnectIsTerminal ==
    [](isManualDisconnect => armedTimers = 0 /\ ws = 0) /\ [][ManualStep]_vars

\* After disconnect() of the first transport, with the whole budget left,
\* its close event has arrived and the caller has handed over an intent.
C10_Witness ==
    /\ isManualDisconnect
    /\ created = 1
    /\ readyState[1] = CLOSED
    /\ reconnectAttempts = 0
    /\ queue # <<>>

\* ---------------------------------------------------------------- C11
\* A step changes reconnectAttempts only by resetting it to 0 (a successful
\* open) or by counting one scheduled reconnect, from below the maximum.
AttemptsStep ==
    reconnectAttempts' # reconnectAttempts
    => \/ reconnectAttempts' = 0
       \/ /\ reconnectAttempts < maxReconnectAttempts
          /\ reconnectAttempts' = reconnectAttempts + 1

\* C11: bounded reconnection. In every reachable state
\* 0 <= reconnectAttempts <= maxReconnectAttempts, and since every scheduled
\* reconnect counts one attempt and only a successful open resets the count,
\* at most maxReconnectAttempts reconnects are scheduled between two opens.
C11_BoundedReconnection ==
    [](reconnectAttempts \in 0..maxReconnectAttempts) /\ [][AttemptsStep]_vars

\* The budget is spent: the fifth reconnect's transport has closed and no
\* timer is armed.
C11_Witness ==
    /\ reconnectAttempts = maxReconnectAttempts
    /\ WsState = CLOSED
    /\ armedTimers = 0
    /\ ~isManualDisconnect

\* ---------------------------------------------------------------- C12
\* A step that schedules a reconnect: scheduleReconnect() is the only code
\* that increments reconnectAttempts.
SchedulesReconnect == reconnectAttempts' = reconnectAttempts + 1

\* C12: the k-th reconnect scheduled since the last successful open
\* (k = reconnectAttempts after the increment) is armed with a delay of
\* 1000, 2000, 4000, 8000, 16000 ms for k = 1..5, and none is scheduled
\* for k > 5.
C12_BackoffSchedule ==
    [][SchedulesReconnect
       => /\ reconnectAttempts' \in 1..5
          /\ reconnectTimeout' = "armed"
          /\ timerDelay' = <<1000, 2000, 4000, 8000, 16000>>[reconnectAttempts']]_vars

\* The fifth reconnect is armed, 16 s ahead.
C12_Witness ==
    /\ reconnectAttempts = 5
    /\ reconnectTimeout = "armed"
    /\ timerDelay = 16000

\* ---------------------------------------------------------------- C13
\* A step in which some transport's close event was handled.
CloseHandled == \E s \in Sockets : readyState[s] # CLOSED /\ readyState'[s] = CLOSED

\* The callback runs in a close handler iff that handler schedules no
\* reconnect, which is when the close follows disconnect() or the budget
\* is spent.
SurfacedIffNoReconnect ==
    CloseHandled /\ OnCloseCallbackSet
    => /\ onCloseCalled' <=> ~SchedulesReconnect
       /\ onCloseCalled' <=>
             (isManualDisconnect \/ reconnectAttempts >= maxReconnectAttempts)

\* The latest close was surfaced with the budget spent, and the caller has
\* not called connect() or disconnect() since.
GaveUp == onCloseCalled /\ ~isManualDisconnect

\* After giving up, and until the caller calls connect() again, no
\* WebSocket is created.
NoTransportAfterGivingUp ==
    GaveUp /\ onCloseCalled' => created' = created

\* C13: a transport close invokes the caller's onClose callback iff no
\* reconnect is scheduled for that close (the close follows disconnect() or
\* arrives with reconnectAttempts >= maxReconnectAttempts); a close that
\* schedules a reconnect is not surfaced; after a close with the budget
\* spent the agent opens no further transport and has no reconnect timer
\* pending that would open one.
C13_CloseSurfacedIffTerminal ==
    /\ [][SurfacedIffNoReconnect /\ NoTransportAfterGivingUp]_vars
    /\ [](GaveUp => armedTimers = 0)

\* ---------------------------------------------------------------- C14
\* A step in which requestInitialStory() is called: the Game page hands the
\* GameWebSocket no intent but this one.
RequestsInitialStory == enqueued' = enqueued + 1

\* requestInitialStory() is called only in the step that marks the session
\* as requested, on a fetch that returned no messages, and the mark is
\* never removed.
RequestedOnceStep ==
    /\ requestedSessions \subseteq requestedSessions'
    /\ RequestsInitialStory
       => /\ SessionId \notin requestedSessions
          /\ SessionId \in requestedSessions'
          /\ ~hasMessages

\* C14: for a session id, across any number of loadSession calls,
\* reconnects of the transport and unmount/remount cycles of the Game page
\* in one page lifetime, requestInitialStory is called at most once, and
\* never for a session whose fetched message list is non-empty.
C14_InitialStoryRequestedAtMostOnce ==
    /\ [](enqueued <= 1)
    /\ [](Cardinality(InitialStories(sent)) + Cardinality(InitialStories(queue)) <= 1)
    /\ [][RequestedOnceStep]_vars

\* The initial story was asked for by the first instance; the page was
\* remounted with a new instance, whose fetch of the still empty session
\* has returned, and the transport has reconnected.
C14_Witness ==
    /\ enqueued = 1
    /\ mounted /\ instance = 2
    /\ loading = {}
    /\ ~hasMessages
    /\ created >= 2 /\ WsState = OPEN

\* ---------------------------------------------------------------- C15
\* C15: once the session is marked as requested, exactly one initial_story
\* intent is delivered downstream: never two, and not zero, the one intent
\* being either handed to the transport or waiting in the queue of the
\* page's GameWebSocket, also when a Game mount is torn down (disconnect()
\* clearing the queue) or wsRef is null when the session is marked.
C15_ExactlyOneInitialStory ==
    /\ Cardinality(InitialStories(sent)) <= 1
    /\ AlreadyRequested
       => Cardinality(InitialStories(sent)) + Cardinality(InitialStories(queue)) = 1

\* ---------------------------------------------------------------- C16
\* A step in which connect() binds connection t.
Registers(t) == tpc[t] = "accepted" /\ tpc'[t] = "receiving"

\* connect() for a session id that is bound to another connection closes
\* that connection and leaves the new one as the entry.
RegisterClosesPrior ==
    \A t \in Transports :
        Registers(t)
        => /\ active_connections'[tsession[t]] = t
           /\ active_connections[tsession[t]] \notin {0, t}
              => ~topen'[active_connections[tsession[t]]]

\* C16: the Hub binds each session id to at most one transport, and
\* register(sessionId, t2) while t1 is bound to that id closes t1 and
\* leaves t2 as the only binding.
C16_RegisterClosesPrior ==
    /\ [](\A sid \in HubSessions : active_connections[sid] \in {0} \cup Transports)
    /\ [][RegisterClosesPrior]_vars

\* ---------------------------------------------------------------- C17
\* C17: last register wins. The connection last registered for a session
\* id stays bound until its own route unregisters: a stale connection's
\* unregister does not remove the newer binding, and no connection but
\* the newest is bound.
C17_LastRegisterWins ==
    \A sid \in HubSessions :
        /\ active_connections[sid] \in {0, lastBound[sid]}
        /\ (lastBound[sid] # 0 /\ tpc[lastBound[sid]] = "receiving")
           => active_connections[sid] = lastBound[sid]

\* ---------------------------------------------------------------- C18
\* C18: however many initial_story intents arrive for a session id, at
\* most one of them is forwarded to the narrative engine.
C18_InitialStoryForwardedOnce ==
    \A sid \in HubSessions : initialTasks[sid] <= 1

\* ---------------------------------------------------------------- C19
\* A step in which send_chunk() is called, for another session id or with
\* another outcome than the call before it.
Emits == lastEmit' # lastEmit

\* C19: an event for a session id with no registered transport is dropped
\* and the Hub state is unchanged; an emission that fails on the registered
\* transport unregisters that transport (and is not retried).
C19_EmitDropsOrUnregisters ==
    [][Emits
       => /\ active_connections[lastEmit'.sid] = 0
             => /\ lastEmit'.outcome = "dropped"
                /\ active_connections' = active_connections
          /\ lastEmit'.outcome = "raised"
             => active_connections'[lastEmit'.sid] = 0]_vars

\* ---------------------------------------------------------------- C20
\* A step in which the route of connection t calls disconnect(session_id).
Unregisters(t) == tpc[t] = "receiving" /\ tpc'[t] = "done"

\* Applied to any dictionary, twice is once and no other key changes.
PopIdempotent(conns) ==
    \A sid \in HubSessions :
        /\ Pop(Pop(conns, sid), sid) = Pop(conns, sid)
        /\ Pop(conns, sid)[sid] = 0
        /\ \A other \in HubSessions \ {sid} : Pop(conns, sid)[other] = conns[other]

\* C20: unregister(sessionId) is idempotent: applied twice, or applied when
\* nothing is bound, it leaves the state of applying it once; it never
\* changes the binding of another session id.
C20_UnregisterIdempotent ==
    /\ [](PopIdempotent(active_connections))
    /\ [][\A t \in Transports :
            Unregisters(t)
            => /\ active_connections'[tsession[t]] = 0
               /\ \A other \in HubSessions \ {tsession[t]} :
                     active_connections'[other] = active_connections[other]
               /\ active_connections[tsession[t]] = 0
                  => active_connections' = active_connections]_vars

\* Two routes of the same session id have unregistered, the second one
\* finding nothing bound, while the other session id is bound.
C20_Witness ==
    /\ poppedNone
    /\ \E t, u \in Transports :
          /\ t # u
          /\ tpc[t] = "done" /\ tpc[u] = "done"
          /\ tsession[t] = tsession[u]
          /\ \E other \in HubSessions \ {tsession[t]} : active_connections[other] # 0

\* ---------------------------------------------------------------- C21
\* The arguments this.onCloseCallback is called with in the close handler's
\* two branches: with the budget spent, and after disconnect().
OnCloseArguments(exhausted) == <<>>

\* C21: the notification the caller gets when the reconnect attempts are
\* exhausted differs from the one it gets after a manual disconnect(): a
\* close handler that runs the callback passes it something that tells the
\* two outcomes apart.
C21_TerminalNotificationsDistinguishable ==
    [][CloseHandled /\ onCloseCalled'
       => OnCloseArguments(TRUE) # OnCloseArguments(FALSE)]_vars

\* ---------------------------------------------------------------- C23
\* A step in which the caller hands over an intent.
EnqueueStep == enqueued' = enqueued + 1

\* On an open transport enqueue() sends at once, or queues the intent when
\* the send throws.
SendsAtOnce ==
    EnqueueStep /\ WsState = OPEN
    => \/ sent' = Append(sent, NextPayload("player_input")) /\ queue' = queue
       \/ sent' = Append(sent, NextPayload("initial_story")) /\ queue' = queue
       \/ Len(queue') = Len(queue) + 1 /\ sent' = sent

\* C23: enqueue() on an open transport sends immediately; an intent whose
\* send failed waits in the queue, is never sent twice, and no intent
\* enqueued after it is sent before it.
C23_FailedSendKeepsItsPlace ==
    /\ [][SendsAtOnce]_vars
    /\ [](\A i, j \in DOMAIN sent : i # j => sent[i].id # sent[j].id)
    /\ [](\A i \in DOMAIN queue : \A j \in DOMAIN sent : sent[j].id < queue[i].id)

\* ---------------------------------------------------------------- C24
\* A reconnect is pending.
ReconnectPending == reconnectTimeout = "armed"

\* C24: enqueue() with the transport closed or a reconnect pending queues
\* the intent; it schedules a reconnect only when none is pending and the
\* budget remains, and with a reconnect pending it leaves reconnectAttempts
\* and the pending timer as they are.
C24_EnqueueKeepsPendingReconnect ==
    [][EnqueueStep /\ (WsState \notin {OPEN, CONNECTING} \/ ReconnectPending)
       => /\ Len(queue') = Len(queue) + 1
          /\ SchedulesReconnect
                => ~ReconnectPending /\ reconnectAttempts < maxReconnectAttempts
          /\ ReconnectPending
                => UNCHANGED <<reconnectAttempts, reconnectTimeout, armedTimers, timerDelay>>]_vars

\* ---------------------------------------------------------------- C25
\* A step in which enqueue()'s send on the open transport threw.
SendFailedInEnqueue ==
    EnqueueStep /\ WsState = OPEN /\ Len(queue') = Len(queue) + 1

\* C25: a send that fails in enqueue() on an open transport is a transport
\* failure: the intent is queued, the transport is taken through close and,
\* while budget remains, a reconnect is scheduled.
C25_SendFailureReconnects ==
    [][SendFailedInEnqueue
       => /\ readyState'[ws] \in {CLOSING, CLOSED}
          /\ reconnectAttempts < maxReconnectAttempts => SchedulesReconnect]_vars

\* ---------------------------------------------------------------- C26
\* A step in which the heartbeat's ping could not be sent.
PingFailed == sendThrew' = "heartbeat"

\* C26: a heartbeat ping that fails to send takes the failure path of a
\* transport close: the heartbeat is stopped, a reconnect is scheduled while
\* budget remains, and the caller is notified otherwise.
C26_HeartbeatFailureTakesClosePath ==
    [][PingFailed
       => /\ heartbeatInterval' = FALSE
          /\ IF CloseShouldReconnect THEN SchedulesReconnect ELSE onCloseCalled']_vars

\* ---------------------------------------------------------------- C27
\* A step in which some transport's open event was handled.
OpenHandled ==
    \E s \in Sockets : readyState[s] = CONNECTING /\ readyState'[s] = OPEN

\* C27: the flush on open sends the queue from the front: afterwards the
\* queue is exactly the part of the old queue that was not sent, in its old
\* order, and what was sent is the part before it; a send that fails ends
\* the flush with the failed intent at the front of the queue.
C27_FlushKeepsUnsentSuffix ==
    [][OpenHandled
       => /\ \E k \in 0..Len(queue) :
               /\ sent' = sent \o SubSeq(queue, 1, k)
               /\ queue' = SubSeq(queue, k + 1, Len(queue))
          /\ sendThrew' = "flushQueue" => queue' # <<>>
          /\ sendThrew' \in {"flushQueue", "none"}]_vars

\* A flush sent the first of three queued intents and failed on the second:
\* the second and the third wait in the queue.
C27_Witness ==
    /\ sendThrew = "flushQueue"
    /\ Len(sent) = 1 /\ sent[1].id = 1
    /\ Len(queue) = 2 /\ queue[1].id = 2 /\ queue[2].id = 3

\* ---------------------------------------------------------------- C22
\* A step in which the page handled an error message: only that handler
\* sets the error text.
ErrorHandled ==
    display.visualizationError = "null" /\ display'.visualizationError = "message"

\* C22: handling a server error message clears the streaming buffer and
\* the loading flag and sets the error text, and changes nothing else: the
\* GameWebSocket's transport, queue, reconnectAttempts and timers are as
\* before, and the transport is still open for further intents.
C22_ErrorKeepsConnection ==
    [][ErrorHandled
       => /\ UNCHANGED wsVars
          /\ WsState' = OPEN
          /\ display' = [display EXCEPT !.streamingContent = "", !.isLoading = FALSE,
                                        !.visualizationError = "message"]
          /\ UNCHANGED <<requestedSessions, mounted, instance, loading, storedTurns,
                         completed, messages>>]_vars

\* The error text is shown, the streaming buffer and the loading flag are
\* cleared, and the transport that carried the initial story is still open
\* with its heartbeat running.
C22_Witness ==
    /\ display.streamingContent = "" /\ ~display.isLoading
    /\ display.visualizationError = "message"
    /\ mounted
    /\ WsState = OPEN
    /\ heartbeatInterval
    /\ InitialStories(sent) # {}

\* ---------------------------------------------------------------- C28
\* A step in which the open event of the agent's current transport was
\* handled.
CurrentOpens ==
    ws # 0 /\ readyState[ws] = CONNECTING /\ readyState'[ws] = OPEN

C29_CloseSchedulesOneReconnect ==
    /\ [][CloseHandled /\ CloseShouldReconnect
          => /\ reconnectAttempts' = reconnectAttempts + 1
             /\ reconnectTimeout' = "armed"
             /\ armedTimers' = 1]_vars
    /\ \A n \in 0..(MaxSockets - 1) :
          (armedTimers > 0 /\ created = n /\ ~isManualDisconnect)
             ~> (created > n \/ isManualDisconnect)

\* The first transport closed with the whole budget left; the reconnect it
\* scheduled has fired and the second transport is connecting.
C29_Witness ==
    /\ created = 2 /\ ws = 2
    /\ readyState[1] = CLOSED /\ readyState[2] = CONNECTING
    /\ reconnectAttempts = 1
    /\ reconnectTimeout = "fired"
    /\ armedTimers = 0
    /\ ~isManualDisconnect

DisconnectCalled == ~isManualDisconnect /\ isManualDisconnect'

\* C31: right after disconnect(), in whatever state it was called, the
\* manual flag is set, no heartbeat and no reconnect timer is pending, the
\* agent holds no transport and the queue is empty.
C31_DisconnectLeavesNothingPending ==
    [][DisconnectCalled
       => /\ isManualDisconnect'
          /\ ~heartbeatInterval'
          /\ armedTimers' = 0 /\ reconnectTimeout' = "null"
          /\ ws' = 0
          /\ queue' = <<>>]_vars

\* disconnect() was called with the budget spent and intents queued: the
\* agent holds no transport, nothing is queued and no timer is pending.
C31_Witness ==
    /\ isManualDisconnect
    /\ reconnectAttempts = maxReconnectAttempts
    /\ enqueued > 0 /\ sent = <<>>
    /\ ws = 0 /\ queue = <<>>
    /\ armedTimers = 0 /\ ~heartbeatInterval

\* ---------------------------------------------------------------- C34
\* The WebSockets of the agent that are connecting or open.
LiveTransports == {s \in Sockets : readyState[s] \in {CONNECTING, OPEN}}

\* C34: at any time at most one WebSocket created by the agent is
\* CONNECTING or OPEN.
C34_SingleLiveTransport == Cardinality(LiveTransports) <= 1

\* ---------------------------------------------------------------- C36
\* A step in which the close event of a transport other than the current
\* one was handled.
SupersededCloses ==
    \E s \in Sockets : s # ws /\ readyState[s] # CLOSED /\ readyState'[s] = CLOSED

\* C36: the heartbeat runs whenever the agent's current transport is open,
\* and does not run when the agent has no transport or its transport is
\* connecting or closed; the close event of a superseded transport does not
\* stop the heartbeat of the current one.
C36_HeartbeatTracksCurrentTransport ==
    /\ [](WsState = OPEN => heartbeatInterval)
    /\ [](WsState \in {NOSOCKET, CONNECTING, CLOSED} => ~heartbeatInterval)
    /\ [][SupersededCloses /\ WsState = OPEN /\ heartbeatInterval
          => heartbeatInterval']_vars

\* ---------------------------------------------------------------- C38
\* C38: at most one reconnect timer is pending at any time, and it is the
\* one this.reconnectTimeout refers to: scheduling a reconnect replaces the
\* pending timer and disconnect() cancels it.
C38_OneReconnectTimer ==
    /\ [](armedTimers <= 1)
    /\ [](armedTimers = 1 <=> reconnectTimeout = "armed")
    /\ [][SchedulesReconnect => armedTimers' = 1]_vars
    /\ [][DisconnectCalled => armedTimers' = 0]_vars

\* A second reconnect was scheduled while the first one's timer was still
\* pending: one timer is armed, with the second delay.
C38_Witness ==
    /\ onMessageCallback = "set"
    /\ created = 1 /\ readyState[1] = CLOSED
    /\ reconnectAttempts = 2
    /\ armedTimers = 1 /\ timerDelay = 2000

\* ---------------------------------------------------------------- C39
\* C39: on an agent on which connect() was never called, handing over an
\* intent only queues it: no reconnect is scheduled and no WebSocket is
\* created.
C39_NoTransportBeforeConnect ==
    onMessageCallback = "null"
    => created = 0 /\ armedTimers = 0 /\ reconnectAttempts = 0


\* ---------------------------------------------------------------- C37
\* A step in which the page hands a player_input intent to its
\* GameWebSocket.
PlayerInputSubmitted ==
    /\ enqueued' = enqueued + 1
    /\ \/ \E i \in DOMAIN sent' :
             sent'[i].id = enqueued' /\ sent'[i].type = "player_input"
       \/ \E i \in DOMAIN queue' :
             queue'[i].id = enqueued' /\ queue'[i].type = "player_input"

\* A step in which the loading flag of the page is cleared.
LoadingCleared == display.isLoading /\ ~display'.isLoading

\* A step that ends a turn for the page: a streaming task sends its
\* story_complete, an error message is handled, or a close handler runs
\* the onClose callback.
TurnEnds ==
    \/ completed' = completed + 1
    \/ display'.visualizationError = "message"
    \/ onCloseCalled'

\* C37: a player_input intent is submitted only while the loading flag is
\* false, and submitting sets the flag; the flag is cleared only by a
\* story_complete, an error message or a terminal close, so no second
\* player_input is enqueued between a submitted input and the next of these.
C37_OneTurnInFlight ==
    /\ [][PlayerInputSubmitted => ~display.isLoading /\ display'.isLoading]_vars
    /\ [][LoadingCleared => TurnEnds]_vars

\* The first turn has run to its story_complete and the player has
\* submitted the second input, which the transport has taken: the loading
\* flag is set again.
C37_Witness ==
    /\ enqueued = 2
    /\ Len(sent) = 2
    /\ sent[2].type = "player_input"
    /\ completed = 1
    /\ display.isLoading
    /\ Len(messages.local) > 0
    /\ messages.local[Len(messages.local)] = PlayerMessage(2)


\* ---------------------------------------------------------------- C35
\* A step in which the response of the loadSession() call f arrives in the
\* displayed Game instance.
ResponseArrives(f) == f \in loading /\ f \notin loading' /\ f.inst = instance

\* The turns the session held before the first streaming task ended.
InitialTurns == storedTurns - completed

\* Message m of the displayed list is still displayed after the step:
\* among the locally appended messages, or in the fetched turns (the turn
\* of the n-th intent is stored when the n-th streaming task ends).
StillDisplayed(m) ==
    \/ \E i \in DOMAIN messages'.local : messages'.local[i] = m
    \/ messages'.snapshot >= InitialTurns + m.id

\* C35: with several loadSession() calls in flight, a response never
\* replaces the displayed list by a snapshot of the session older than the
\* one displayed, and never removes a player message that was appended
\* after its loadSession() call started.
C35_ViewNeverRegresses ==
    [][\A f \in loading :
          ResponseArrives(f)
          => /\ messages'.snapshot >= messages.snapshot
             /\ \A i \in DOMAIN messages.local :
                   (messages.local[i].sender = "player" /\ messages.local[i].id > f.at)
                   => StillDisplayed(messages.local[i])]_vars

\* ---------------------------------------------------------------- C32
\* A step in which a story_complete message reaches the page.
StoryCompleteArrives == completed' = completed + 1 /\ Delivered

\* C32: the streaming buffer changes only by a story_chunk content appended
\* at its end or by being emptied; story_complete appends a non-empty
\* buffer to the messages as exactly one StoryOS message, empties the
\* buffer, clears the loading flag and starts a loadSession() call.
C32_StreamedTurnAppendedOnce ==
    /\ [][display'.streamingContent # display.streamingContent
          => \/ display'.streamingContent = ""
             \/ \E content \in ChunkContents :
                   display'.streamingContent = display.streamingContent \o content]_vars
    /\ [][StoryCompleteArrives
          => /\ messages'.local =
                   IF display.streamingContent # ""
                   THEN Append(messages.local, StoryOSMessage(display.streamingContent))
                   ELSE messages.local
             /\ messages'.snapshot = messages.snapshot
             /\ display'.streamingContent = ""
             /\ ~display'.isLoading
             /\ [inst |-> instance, from |-> storedTurns', at |-> enqueued] \in loading']_vars

\* ---------------------------------------------------------------- C33
\* The reconnect that is pending cannot run within the number of
\* WebSocket objects considered.
SocketsUsedUp == created = MaxSockets

\* The player has submitted an input, which the transport has taken: the
\* loading flag is set and the server is streaming the turn.
TurnInFlight == display.isLoading /\ queue = <<>> /\ Streaming > 0

\* C33: the loading flag set by a submitted input is eventually cleared,
\* whatever happens to the transport while the server streams the turn, as
\* long as the agent reconnects.
C33_LoadingEventuallyCleared ==
    TurnInFlight ~> (~display.isLoading \/ SocketsUsedUp)

=============================================================================
